---- MODULE Spec2Model ----
(***************************************************************************)
(* A model of the Synacor VM and its interactive debugger (synacor-rs).    *)
(*                                                                         *)
(* Words are 16 bits wide and addresses are word indexes, as in the code.  *)
(* The 64 KiB memory vector is kept sparsely: `mem` maps the addresses of  *)
(* the non-zero words to their values, every other word reads as 0.  A     *)
(* save file is kept the same way: its length and its non-zero bytes.      *)
(***************************************************************************)
EXTENDS Integers, Sequences, FiniteSets, TLC

\* ------------------------------------------------------------------ bounds

\* Number of instructions of a generated ROM.
MaxInstrs == 1
\* Number of VM instructions executed in one run.
MaxSteps == 6
\* Number of characters (before the line end) of a line typed as VM input.
MaxInput == 1
\* Number of breakpoints in the debugger's list.
MaxBreakpoints == 2

\* ------------------------------------------------------- program constants

MAX_ADDR == 32767
MAX_BYTES == 65536
\* the modulus of add, mult and mod
Modulus == 32768
\* last word of the register arm of Value's conversion from u16
LastRegisterWord == 32776
\* number of registers
NumRegs == 8
\* number of opcode ids
LastOpCode == 21

U16 == 2 ^ 16
U8 == 2 ^ 8
RegBase == MAX_ADDR + 1

None == "None"

\* ---------------------------------------------------------------- helpers

Max(a, b) == IF a >= b THEN a ELSE b

\* A sparse vector: the non-zero entries of f.
Nz(f) == [x \in {y \in DOMAIN f : f[y] # 0} |-> f[x]]

\* Entry a of a sparse vector.
Get(f, a) == IF a \in DOMAIN f THEN f[a] ELSE 0

\* Sparse vector f with entry a set to v.
Put(f, a, v) ==
    [x \in (DOMAIN f \cup {a}) \ (IF v = 0 THEN {a} ELSE {}) |->
        IF x = a THEN v ELSE f[x]]

RECURSIVE BitAnd(_, _)
BitAnd(a, b) ==
    IF a = 0 \/ b = 0 THEN 0
    ELSE (a % 2) * (b % 2) + 2 * BitAnd(a \div 2, b \div 2)

RECURSIVE BitOr(_, _)
BitOr(a, b) ==
    IF a = 0 THEN b
    ELSE IF b = 0 THEN a
    ELSE Max(a % 2, b % 2) + 2 * BitOr(a \div 2, b \div 2)

\* ------------------------------------------------------------ value types

\* TryFrom<u16> for Register
RegisterTryFrom(u) ==
    IF u >= RegBase /\ u < RegBase + NumRegs
    THEN [ok |-> TRUE, r |-> u - RegBase]
    ELSE [ok |-> FALSE, err |-> "InvalidRegister"]

\* Register::try_from(u).map(Value::FromRegister)
FromRegister(r) ==
    IF r.ok THEN [ok |-> TRUE, lit |-> FALSE, v |-> r.r]
    ELSE [ok |-> FALSE, err |-> r.err]

\* TryFrom<u16> for Value: a literal, a register reference, or an error.
\* The register arm of the match covers 32768...32776, one word more than
\* there are registers.
ValueTryFrom(u) ==
    IF u <= MAX_ADDR THEN [ok |-> TRUE, lit |-> TRUE, v |-> u]
    ELSE IF u <= LastRegisterWord THEN FromRegister(RegisterTryFrom(u))
    ELSE [ok |-> FALSE, err |-> "InvalidValue"]

\* RegisterSet::read of the Value encoded by the (valid) operand word w.
RegRead(regs, w) == IF w <= MAX_ADDR THEN w ELSE regs[w - RegBase]

\* RegisterSet::write_u16
WriteU16Reg(regs, r, u) == [regs EXCEPT ![r] = u]

\* RegisterSet::write_val of the Value encoded by word w
WriteVal(regs, r, w) == WriteU16Reg(regs, r, RegRead(regs, w))

\* ----------------------------------------------------------------- memory
\* A machine record m holds
\*   mem    the non-zero words of the memory vector
\*   veclen the byte length of the memory vector
\*   pos    the cursor's byte position (the instruction pointer)
\*   wm     max_used_addr, the watermark
\*   regs, stack, inbuf

\* Memory::ip: the cursor position as a word address, cast to u16
Ip(m) == (m.pos \div 2) % U16

\* Memory::set_ip
SetIp(m, addr) == [m EXCEPT !.pos = addr * 2]

\* Memory::next_u16: read_u16 at the cursor.  At the end of the vector the
\* read fails and the cursor stays.
NextU16(m) ==
    IF m.pos + 2 <= m.veclen
    THEN [ok |-> TRUE, w |-> Get(m.mem, m.pos \div 2), err |-> None,
          m |-> [m EXCEPT !.pos = m.pos + 2]]
    ELSE [ok |-> FALSE, w |-> 0, err |-> "Io", m |-> m]

\* the set_ip(ip) that ends Memory::read
Restored(r, ip) == [r EXCEPT !.m = SetIp(r.m, ip)]

\* Memory::read: a word read that restores the cursor
MemRead(m, addr) == Restored(NextU16(SetIp(m, addr)), Ip(m))

\* A variant of Memory::write that leaves the cursor after the word written
MemWriteNoRestore(m, addr, val) ==
    [m EXCEPT !.mem = Put(m.mem, addr, val),
              !.veclen = Max(m.veclen, addr * 2 + 2),
              !.wm = IF addr > m.wm THEN addr ELSE m.wm,
              !.pos = addr * 2 + 2]

\* A variant of Memory::write that moves the watermark to every address
\* written
MemWriteMovesWatermark(m, addr, val) ==
    SetIp([m EXCEPT !.mem = Put(m.mem, addr, val),
                    !.veclen = Max(m.veclen, addr * 2 + 2),
                    !.wm = addr], Ip(m))

\* Memory::write: a word write that restores the cursor.  Writing past the
\* end of the vector grows it.
MemWrite(m, addr, val) ==
    SetIp([m EXCEPT !.mem = Put(m.mem, addr, val),
                    !.veclen = Max(m.veclen, addr * 2 + 2),
                    !.wm = IF addr > m.wm THEN addr ELSE m.wm], Ip(m))

\* Operand kinds of each opcode id, in fetch order: "r" is read with
\* next_reg, "v" with next_val.
Operands(id) ==
    CASE id \in {0, 18, 21} -> <<>>
      [] id \in {2, 6, 17, 19} -> <<"v">>
      [] id \in {3, 20} -> <<"r">>
      [] id \in {1, 14, 15} -> <<"r", "v">>
      [] id \in {7, 8, 16} -> <<"v", "v">>
      [] id \in {4, 5, 9, 10, 11, 12, 13} -> <<"r", "v", "v">>

FetchFailed(err, m) == [ok |-> FALSE, err |-> err, m |-> m]

RECURSIVE FetchOperands(_, _, _)
RECURSIVE FetchOperand(_, _, _)
RECURSIVE CheckOperand(_, _, _, _)

\* the operand word n, read by next_u16, converted by c
CheckOperand(n, c, kinds, args) ==
    IF ~c.ok THEN FetchFailed(c.err, n.m)
    ELSE FetchOperands(n.m, Tail(kinds), Append(args, n.w))

\* Memory::next_reg / Memory::next_val on the word n read by next_u16
FetchOperand(n, kinds, args) ==
    IF ~n.ok THEN FetchFailed(n.err, n.m)
    ELSE CheckOperand(n, IF Head(kinds) = "r" THEN RegisterTryFrom(n.w)
                         ELSE ValueTryFrom(n.w), kinds, args)

\* The operands of an opcode, read in order; the first that fails ends
\* the fetch.
FetchOperands(m, kinds, args) ==
    IF kinds = <<>> THEN [ok |-> TRUE, args |-> args, m |-> m]
    ELSE FetchOperand(NextU16(m), kinds, args)

\* The opcode with its operands o
OpOf(id, o) ==
    IF ~o.ok THEN FetchFailed(o.err, o.m)
    ELSE [ok |-> TRUE, op |-> [id |-> id, args |-> o.args], m |-> o.m]

\* Memory::fetch_op's match on the opcode word n converted to the value v
\* (Memory::next_instr wants a literal)
DispatchOp(n, v) ==
    IF ~v.ok THEN FetchFailed(v.err, n.m)
    ELSE IF ~v.lit THEN FetchFailed("NonLiteralOpCode", n.m)
    ELSE IF v.v > LastOpCode THEN FetchFailed("InvalidOpCode", n.m)
    ELSE OpOf(v.v, FetchOperands(n.m, Operands(v.v), <<>>))

\* Memory::next_instr on the word n read by next_u16
NextInstr(n) ==
    IF ~n.ok THEN FetchFailed(n.err, n.m) ELSE DispatchOp(n, ValueTryFrom(n.w))

\* Memory::fetch_op: the opcode at the cursor as [id, args], args being the
\* raw operand words; the cursor moves past every word read, also when the
\* fetch fails.
FetchOp(m) == NextInstr(NextU16(m))

\* OpCode::decode: register operands become register indexes, value
\* operands are resolved through the register file, out's character is the
\* low byte, and ret gets the top of the stack (<<>> when it is empty).
Decode(op, regs, stack) ==
    [id |-> op.id,
     a |-> [i \in 1..Len(op.args) |->
              IF Operands(op.id)[i] = "r" THEN op.args[i] - RegBase
              ELSE IF op.id = 19 THEN RegRead(regs, op.args[i]) % U8
              ELSE RegRead(regs, op.args[i])],
     ret |-> IF op.id = 18 /\ stack # <<>> THEN <<stack[Len(stack)]>> ELSE <<>>]

\* ---------------------------------------------------------------- machine

\* A variant of the outcomes in which out gives Continue
OutcomeNoOutput(res, m) ==
    [res |-> IF res = "Output" THEN "Continue" ELSE res, m |-> m, reg |-> 0, c |-> 0,
     err |-> None]

Outcome(res, m) == [res |-> res, m |-> m, reg |-> 0, c |-> 0, err |-> None]

Continue(m) == Outcome("Continue", m)

\* A variant of the failure that halts, as ret does on an empty stack
FailedAsHalted(err, m) == [res |-> "Halted", m |-> m, reg |-> 0, c |-> 0, err |-> None]

Failed(err, m) == [Outcome("Error", m) EXCEPT !.err = err]

\* A panic of the process (an arithmetic fault, an out-of-range index).
Panic(m) == Outcome("Panic", m)

\* registers.write_u16(reg, u), then Continue
Wrote(m, reg, u) == {Continue([m EXCEPT !.regs = WriteU16Reg(m.regs, reg, u)])}

\* A variant of add that writes the sum unreduced
AddUnreduced(m, reg, val1, val2) == Wrote(m, reg, val1 + val2)

\* u16 addition: past 65535 a debug build panics and a release build wraps.
AddU16(m, reg, val1, val2) ==
    IF val1 + val2 < U16 THEN Wrote(m, reg, (val1 + val2) % Modulus)
    ELSE {Panic(m)} \cup Wrote(m, reg, ((val1 + val2) % U16) % Modulus)

\* registers.write_val(reg, v) for the word u converted to the value v
WroteValue(m, reg, u, v) ==
    IF ~v.ok THEN Failed(v.err, m)
    ELSE Continue([m EXCEPT !.regs = WriteVal(m.regs, reg, u)])

\* Machine::write_reg_from_buffer: the first character of the input buffer,
\* cast to u16 and converted to a Value, is written to reg.  On an empty
\* buffer String::remove panics.
WriteRegFromBuffer(m, reg) ==
    IF m.inbuf = <<>> THEN Panic(m)
    ELSE WroteValue([m EXCEPT !.inbuf = Tail(m.inbuf)], reg,
                    Head(m.inbuf) % U16, ValueTryFrom(Head(m.inbuf) % U16))

\* rmem: the word r read from memory, converted to a Value, is written
Rmem(reg, r) ==
    IF ~r.ok THEN {Failed(r.err, r.m)}
    ELSE {WroteValue(r.m, reg, r.w, ValueTryFrom(r.w))}

\* A variant of ret that fails on an empty stack, as pop does
RetEmptyStackFails(m, ret) ==
    IF ret # <<>>
    THEN {Continue(SetIp([m EXCEPT
             !.stack = SubSeq(m.stack, 1, Len(m.stack) - 1)], ret[1]))}
    ELSE {Failed("EmptyStack", m)}

\* A variant of ret that jumps and leaves the stack as it is
RetKeepsStack(m, ret) ==
    IF ret # <<>> THEN {Continue(SetIp(m, ret[1]))} ELSE {Outcome("Halted", m)}

\* ret: the element the decode found on top of the stack (ret) is popped
\* and jumped to; with none the machine halts.
Ret(m, ret) ==
    IF ret # <<>>
    THEN {Continue(SetIp([m EXCEPT
             !.stack = SubSeq(m.stack, 1, Len(m.stack) - 1)], ret[1]))}
    ELSE {Outcome("Halted", m)}

\* A variant of in that stalls whatever the input buffer holds
InAlwaysStalls(m, reg) == {[Outcome("Input", m) EXCEPT !.reg = reg]}

\* in: with an empty input buffer the machine stalls for reg; else the
\* next buffered character is written.
In(m, reg) ==
    IF Len(m.inbuf) = 0
    THEN {[Outcome("Input", m) EXCEPT !.reg = reg]}
    ELSE {WriteRegFromBuffer(m, reg)}

\* The execute half of Machine::step for the decoded instruction d; m is
\* the machine after the fetch.
Execute(m, d) ==
    CASE d.id = 0 -> {Outcome("Halted", m)}
      [] d.id = 19 -> {[Outcome("Output", m) EXCEPT !.c = d.a[1]]}
      [] d.id = 21 -> {Continue(m)}
      [] d.id = 6 -> {Continue(SetIp(m, d.a[1]))}
      [] d.id = 7 -> {Continue(IF d.a[1] # 0 THEN SetIp(m, d.a[2]) ELSE m)}
      [] d.id = 8 -> {Continue(IF d.a[1] = 0 THEN SetIp(m, d.a[2]) ELSE m)}
      [] d.id = 1 -> Wrote(m, d.a[1], d.a[2])
      [] d.id = 9 -> AddU16(m, d.a[1], d.a[2], d.a[3])
      [] d.id = 10 -> Wrote(m, d.a[1], (d.a[2] * d.a[3]) % Modulus)
      [] d.id = 11 -> IF d.a[3] = 0 THEN {Panic(m)}
                      ELSE Wrote(m, d.a[1], (d.a[2] % d.a[3]) % Modulus)
      [] d.id = 4 -> Wrote(m, d.a[1], IF d.a[2] = d.a[3] THEN 1 ELSE 0)
      [] d.id = 2 -> {Continue([m EXCEPT !.stack = Append(m.stack, d.a[1])])}
      [] d.id = 3 ->
            IF m.stack # <<>>
            THEN {Continue([m EXCEPT
                     !.stack = SubSeq(m.stack, 1, Len(m.stack) - 1),
                     !.regs = WriteU16Reg(m.regs, d.a[1], m.stack[Len(m.stack)])])}
            ELSE {Failed("EmptyStack", m)}
      [] d.id = 5 -> Wrote(m, d.a[1], IF d.a[2] > d.a[3] THEN 1 ELSE 0)
      [] d.id = 12 -> Wrote(m, d.a[1], BitAnd(d.a[2], d.a[3]))
      [] d.id = 13 -> Wrote(m, d.a[1], BitOr(d.a[2], d.a[3]))
      [] d.id = 14 -> Wrote(m, d.a[1], BitAnd(U16 - 1 - d.a[2], MAX_ADDR))
      [] d.id = 17 ->
            {Continue(SetIp([m EXCEPT !.stack = Append(m.stack, Ip(m))], d.a[1]))}
      [] d.id = 15 -> Rmem(d.a[1], MemRead(m, d.a[2]))
      [] d.id = 16 -> {Continue(MemWrite(m, d.a[1], d.a[2]))}
      [] d.id = 18 -> Ret(m, d.ret)
      [] d.id = 20 -> In(m, d.a[1])

\* Machine::step on the fetched opcode f
StepFetched(f) ==
    IF ~f.ok THEN {Failed(f.err, f.m)}
    ELSE Execute(f.m, Decode(f.op, f.m.regs, f.m.stack))

\* Machine::step: the set of results the step of machine m can have (one,
\* but where the build decides).
Step(m) == StepFetched(FetchOp(m))

\* A variant of peek_instr that never puts the cursor back
PeekFetchedNoRestore(f, ip) ==
    IF ~f.ok THEN [ok |-> FALSE, err |-> f.err, m |-> f.m]
    ELSE [ok |-> TRUE, err |-> None, op |-> f.op,
          d |-> Decode(f.op, f.m.regs, f.m.stack), m |-> f.m]

\* Machine::peek_instr after its fetch f: decode, then put the cursor back
\* to ip.  The cursor is put back only when fetch and decode succeed.
PeekFetched(f, ip) ==
    IF ~f.ok THEN [ok |-> FALSE, err |-> f.err, m |-> f.m]
    ELSE [ok |-> TRUE, err |-> None, op |-> f.op,
          d |-> Decode(f.op, f.m.regs, f.m.stack), m |-> SetIp(f.m, ip)]

\* Machine::peek_instr
PeekInstr(m) == PeekFetched(FetchOp(m), Ip(m))

\* StalledMachine::set_input
SetInput(m, reg, input) == WriteRegFromBuffer([m EXCEPT !.inbuf = input], reg)

\* ------------------------------------------------------------- save files
\* A byte buffer is [len, b]: its length and its non-zero bytes by offset.

ZeroBuf(n) == [len |-> n, b |-> [o \in {} |-> 0]]

\* write_u16::<LittleEndian> at offset o of a Cursor<Vec<u8>>
BufWriteU16(buf, o, v) ==
    [len |-> Max(buf.len, o + 2),
     b |-> Put(Put(buf.b, o, v % U8), o + 1, (v \div U8) % U8)]

\* write_u16 of each word of ws, from offset o on
RECURSIVE BufWriteWords(_, _, _)
BufWriteWords(buf, o, ws) ==
    IF ws = <<>> THEN buf
    ELSE BufWriteWords(BufWriteU16(buf, o, Head(ws)), o + 2, Tail(ws))

\* read_u16::<LittleEndian> at offset o
BufReadU16(buf, o) ==
    IF o + 2 <= buf.len
    THEN [ok |-> TRUE, w |-> Get(buf.b, o) + U8 * Get(buf.b, o + 1)]
    ELSE [ok |-> FALSE, err |-> "Io"]

\* Byte i of the memory vector
MemByte(mem, i) ==
    IF i % 2 = 0 THEN Get(mem, i \div 2) % U8 ELSE Get(mem, i \div 2) \div U8

\* dst.copy_from_slice(src): bytes [0, n) of the memory vector copied to
\* offsets [at, at + n) of buf
CopyImage(buf, mem, at, n) ==
    LET keep == {o \in DOMAIN buf.b : o < at \/ o >= at + n}
        img == {at + i : i \in {j \in UNION {{2 * a, 2 * a + 1} : a \in DOMAIN mem} : j < n}}
    IN  [buf EXCEPT !.b = Nz([o \in keep \cup img |->
                                 IF o \in img THEN MemByte(mem, o - at) ELSE buf.b[o]])]

\* Memory::used_bytes: (max_used_addr + 1) * 2 in u16 arithmetic.  Past
\* 65535 a debug build panics and a release build wraps.
UsedBytes(m) ==
    IF (m.wm + 1) * 2 < U16 THEN {[ok |-> TRUE, v |-> (m.wm + 1) * 2]}
    ELSE {[ok |-> FALSE, v |-> 0], [ok |-> TRUE, v |-> (((m.wm + 1) % U16) * 2) % U16]}

\* A variant of as_bytes that seeks from the end of the image
RegsAfterImage(mem_bytes) == 4 + mem_bytes

\* Where as_bytes puts the registers: the cursor is at 4 after the two
\* header words (the image is copied through get_mut, past the cursor) and
\* is moved on by mem_bytes / 2.
RegsOffset(mem_bytes) == 4 + mem_bytes \div 2

\* Machine::as_bytes for a given mem_bytes: [ok, buf]; not ok is a panic.
AsBytesOf(m, mem_bytes) ==
    LET stack_bytes == Len(m.stack) * 2
        tot_bytes == 2 + 2 + mem_bytes + 16 + 2 + stack_bytes
        hdr == BufWriteU16(BufWriteU16(ZeroBuf(tot_bytes), 0, Ip(m)), 2, mem_bytes)
        srclen == (m.wm + 1) * 2
        regsAt == RegsOffset(mem_bytes)
    IN  IF srclen > m.veclen \/ srclen # mem_bytes THEN [ok |-> FALSE]
        ELSE [ok |-> TRUE,
              buf |-> BufWriteWords(
                        BufWriteU16(
                          BufWriteWords(CopyImage(hdr, m.mem, 4, mem_bytes), regsAt,
                                        [i \in 1..NumRegs |-> m.regs[i - 1]]),
                          regsAt + 2 * NumRegs, stack_bytes % U16),
                        regsAt + 2 * NumRegs + 2, m.stack)]

\* Machine::as_bytes: the results it can have
AsBytes(m) ==
    {IF u.ok THEN AsBytesOf(m, u.v) ELSE [ok |-> FALSE] : u \in UsedBytes(m)}

\* The bytes buf[from..]
BufFrom(buf, from) ==
    [len |-> buf.len - from,
     b |-> [o \in {x - from : x \in {y \in DOMAIN buf.b : y >= from}} |-> buf.b[o + from]]]

\* The bytes of buf after `n` bytes put before them
BufAfter(buf, n) ==
    [len |-> buf.len + n, b |-> [o \in {x + n : x \in DOMAIN buf.b} |-> buf.b[o - n]]]

\* Debugger::save_vm: the file written for execution state st, [ok, file];
\* the state tag and the register byte are written before as_bytes runs.
SaveVm(st) ==
    LET vm_state == CASE st.tag = "Stalled" -> 0 [] st.tag = "Running" -> 1
                      [] st.tag = "Halted" -> 2
        reg == IF st.tag = "Stalled" THEN st.reg ELSE 0
        head == [len |-> 2, b |-> Put(Put(ZeroBuf(2).b, 0, vm_state), 1, reg)]
    IN  {IF r.ok
         THEN [ok |-> TRUE,
               file |-> [len |-> r.buf.len + 2,
                         b |-> [o \in DOMAIN head.b \cup DOMAIN BufAfter(r.buf, 2).b |->
                                  IF o < 2 THEN head.b[o] ELSE BufAfter(r.buf, 2).b[o]]]]
         ELSE [ok |-> FALSE, file |-> head] : r \in AsBytes(st.m)}

\* Memory::new for an image of byte_len bytes holding the words `mem`:
\* the results it can have.  For byte_len 0 (and 65536, which the cast to
\* u16 makes 0) the watermark's subtraction underflows: a debug build
\* panics and a release build wraps.
MemoryNew(mem, byte_len) ==
    IF MAX_BYTES < byte_len \/ byte_len % 2 # 0
    THEN {[ok |-> FALSE, panic |-> FALSE, err |-> "InvalidMemorySize"]}
    ELSE LET half == (byte_len % U16) \div 2
             Mk(wm) == [ok |-> TRUE, mem |-> mem, veclen |-> MAX_BYTES, wm |-> wm]
         IN  IF half >= 1 THEN {Mk(half - 1)}
             ELSE {[ok |-> FALSE, panic |-> TRUE, err |-> None], Mk(U16 - 1)}

\* Reads n words from offset o on: [ok, ws]
RECURSIVE BufReadWords(_, _, _, _)
BufReadWords(buf, o, n, ws) ==
    IF n = 0 THEN [ok |-> TRUE, ws |-> ws]
    ELSE LET r == BufReadU16(buf, o)
         IN  IF ~r.ok THEN [ok |-> FALSE, err |-> r.err]
             ELSE BufReadWords(buf, o + 2, n - 1, Append(ws, r.w))

\* The words of the image d[at..at + n)
ImageWords(d, at, n) ==
    Nz([a \in {(o - at) \div 2 : o \in {x \in DOMAIN d.b : x >= at /\ x < at + n}} |->
          Get(d.b, at + 2 * a) + U8 * Get(d.b, at + 2 * a + 1)])

\* Where try_from looks for the registers: the cursor is at 4 after the two
\* header words (the image is taken from the slice, past the cursor) and is
\* moved on by mem_bytes / 2.
RegsSought(mem_bytes) == 4 + mem_bytes \div 2

\* TryFrom<&[u8]> for Machine: the results it can have, each
\* [ok, panic, err, m]
MachineTryFrom(d) ==
    LET Err(e) == [ok |-> FALSE, panic |-> FALSE, err |-> e]
        Crash == [ok |-> FALSE, panic |-> TRUE, err |-> None]
        ip == BufReadU16(d, 0)
        mb == BufReadU16(d, 2)
    IN  IF ~ip.ok THEN {Err(ip.err)}
        ELSE IF ~mb.ok THEN {Err(mb.err)}
        ELSE IF 4 + mb.w > d.len THEN {Crash}
        ELSE {IF ~n.ok THEN [ok |-> FALSE, panic |-> n.panic, err |-> n.err]
              ELSE LET regsAt == RegsSought(mb.w)
                       rs == BufReadWords(d, regsAt, NumRegs, <<>>)
                       sb == BufReadU16(d, regsAt + 2 * NumRegs)
                   IN  IF ~rs.ok THEN Err(rs.err)
                       ELSE IF ~sb.ok THEN Err(sb.err)
                       ELSE LET st == BufReadWords(d, regsAt + 2 * NumRegs + 2,
                                                   sb.w \div 2, <<>>)
                            IN  IF ~st.ok THEN Err(st.err)
                                ELSE [ok |-> TRUE, panic |-> FALSE, err |-> None,
                                      m |-> [mem |-> n.mem, veclen |-> n.veclen,
                                             pos |-> ip.w * 2, wm |-> n.wm,
                                             regs |-> [r \in 0..(NumRegs - 1) |-> rs.ws[r + 1]],
                                             stack |-> st.ws, inbuf |-> <<>>]]
              : n \in MemoryNew(ImageWords(d, 4, mb.w), mb.w)}

\* TryFrom<u8> for Register
RegisterTryFromU8(u) ==
    IF u < NumRegs THEN [ok |-> TRUE, r |-> u]
    ELSE [ok |-> FALSE, err |-> "InvalidRegister"]

\* Debugger::load_vm: the results loading `file` can have, each
\* [ok, panic, err, st]
LoadVm(file) ==
    IF file.len < 2 THEN {[ok |-> FALSE, panic |-> TRUE, err |-> None]}
    ELSE LET tagByte == Get(file.b, 0)
             regByte == Get(file.b, 1)
         IN  {IF ~r.ok THEN r
              ELSE CASE tagByte = 0 ->
                          IF RegisterTryFromU8(regByte).ok
                          THEN [ok |-> TRUE, panic |-> FALSE, err |-> None,
                                st |-> [tag |-> "Stalled", reg |-> regByte, m |-> r.m]]
                          ELSE [ok |-> FALSE, panic |-> FALSE, err |-> "InvalidRegister"]
                     [] tagByte = 1 ->
                          [ok |-> TRUE, panic |-> FALSE, err |-> None,
                           st |-> [tag |-> "Running", reg |-> 0, m |-> r.m]]
                     [] tagByte = 2 ->
                          [ok |-> TRUE, panic |-> FALSE, err |-> None,
                           st |-> [tag |-> "Halted", reg |-> 0, m |-> r.m]]
                     [] OTHER -> [ok |-> FALSE, panic |-> FALSE, err |-> "unknown VmState"]
              : r \in MachineTryFrom(BufFrom(file, 2))}

\* ------------------------------------------------------------ breakpoints
\* A breakpoint is [kind, mem, v]: kind is "At", "Read", "Write" or
\* "Access" and the target is the memory address v (mem) or register v.

\* PartialEq<Value> for Target, for the Value encoded by operand word w:
\* only a register target equals a value, and only a register reference.
TargetEqValue(t, w) == ~t.mem /\ w >= RegBase /\ w - RegBase = t.v

\* PartialEq<Register> for Target, for register index r
TargetEqReg(t, r) == ~t.mem /\ t.v = r

\* PartialEq<Addr> for Target
TargetEqAddr(t, a) == t.mem /\ t.v = a

\* A variant of the destination-register opcodes without add
RegWritersNoAdd == {1, 3, 4, 5, 10, 11, 12, 13, 14, 15, 20}

\* Opcode ids whose first operand is the destination register
RegWriters == {1, 3, 4, 5, 9, 10, 11, 12, 13, 14, 15, 20}

\* OpAccess for OpCode: reads
OpReads(op, t) ==
    LET a == op.args
    IN  CASE op.id \in {2, 6, 17, 19} -> TargetEqValue(t, a[1])
          [] op.id \in {1, 14, 15, 16} -> TargetEqValue(t, a[2])
          [] op.id \in {7, 8} -> TargetEqValue(t, a[1]) \/ TargetEqValue(t, a[2])
          [] op.id \in {4, 5, 9, 10, 11, 12, 13} ->
                TargetEqValue(t, a[2]) \/ TargetEqValue(t, a[3])
          [] OTHER -> FALSE

\* OpAccess for OpCode: writes.  For wmem the target is compared with the
\* address operand, a Value.
OpWrites(op, t) ==
    CASE op.id \in RegWriters -> TargetEqReg(t, op.args[1] - RegBase)
      [] op.id = 16 -> TargetEqValue(t, op.args[1])
      [] OTHER -> FALSE

\* OpAccess for DecodedOpCode: reads
DecReads(d, t) == d.id = 15 /\ TargetEqAddr(t, d.a[2])

\* OpAccess for DecodedOpCode: writes
DecWrites(d, t) ==
    CASE d.id \in RegWriters -> TargetEqReg(t, d.a[1])
      [] d.id = 16 -> TargetEqAddr(t, d.a[1])
      [] OTHER -> FALSE

\* A variant of is_triggered in which Access looks at reads only
IsTriggeredAccessReads(bp, ip, op, d) ==
    LET t == [mem |-> bp.mem, v |-> bp.v]
    IN  CASE bp.kind = "At" -> ip = bp.v
          [] bp.kind = "Read" -> OpReads(op, t) \/ DecReads(d, t)
          [] bp.kind = "Write" -> OpWrites(op, t) \/ DecWrites(d, t)
          [] bp.kind = "Access" -> OpReads(op, t) \/ DecReads(d, t)

\* Breakpoint::is_triggered
IsTriggered(bp, ip, op, d) ==
    LET t == [mem |-> bp.mem, v |-> bp.v]
    IN  CASE bp.kind = "At" -> ip = bp.v
          [] bp.kind = "Read" -> OpReads(op, t) \/ DecReads(d, t)
          [] bp.kind = "Write" -> OpWrites(op, t) \/ DecWrites(d, t)
          [] bp.kind = "Access" ->
                (OpReads(op, t) \/ OpWrites(op, t)) \/ (DecReads(d, t) \/ DecWrites(d, t))

\* A variant of the search that takes the last match
LastOf(hit) == IF hit = {} THEN 0 ELSE CHOOSE i \in hit : \A j \in hit : i >= j

\* The least index of hit, 0 when there is none
FirstOf(hit) == IF hit = {} THEN 0 ELSE CHOOSE i \in hit : \A j \in hit : i <= j

\* The index of the first breakpoint of bps triggered, 0 when none is
FirstTriggered(bps, ip, op, d) ==
    FirstOf({i \in 1..Len(bps) : IsTriggered(bps[i], ip, op, d)})

\* The Reason for the breakpoint found, i
ReasonOf(i, m) ==
    [ok |-> TRUE, reason |-> IF i = 0 THEN None ELSE "Triggered",
     bp |-> i, err |-> None, m |-> m]

\* triggered_breakpoint on the peeked instruction p
TriggeredAt(p, bps) ==
    IF ~p.ok
    THEN [ok |-> FALSE, reason |-> "Error", bp |-> 0, err |-> p.err, m |-> p.m]
    ELSE ReasonOf(FirstTriggered(bps, Ip(p.m), p.op, p.d), p.m)

\* A variant of triggered_breakpoint with no reason for a Stalled state
TriggeredBreakpointIgnoresStall(st, bps) ==
    CASE st.tag = "Running" -> TriggeredAt(PeekInstr(st.m), bps)
      [] st.tag = "Stalled" ->
            [ok |-> TRUE, reason |-> None, bp |-> 0, err |-> None, m |-> st.m]
      [] st.tag = "Halted" ->
            [ok |-> TRUE, reason |-> "Halted", bp |-> 0, err |-> None, m |-> st.m]

\* Debugger::triggered_breakpoint: [ok, reason, bp, err, m]; the machine
\* is peeked when the state is Running.
TriggeredBreakpoint(st, bps) ==
    CASE st.tag = "Running" -> TriggeredAt(PeekInstr(st.m), bps)
      [] st.tag = "Stalled" ->
            [ok |-> TRUE, reason |-> "Stalled", bp |-> 0, err |-> None, m |-> st.m]
      [] st.tag = "Halted" ->
            [ok |-> TRUE, reason |-> "Halted", bp |-> 0, err |-> None, m |-> st.m]

\* --------------------------------------------------------------- debugger

VARIABLES
    rom,          \* history: the ROM debug() was started with
    keys,         \* the characters the user types input lines from
    state,        \* Debugger.state: [tag, reg, m]
    output,       \* Debugger.output: whether instructions are traced
    breakpoints,  \* Debugger.breakpoints
    file,         \* the save file: <<>> when there is none, else <<bytes>>
    saved,        \* history: the execution state the save file was written from
    dbg,          \* where debug() is: "prompt", in the loop of "c" or "s",
                  \* "exited" (an error left debug) or "crashed" (a panic)
    last,         \* history: the last command and what it reported
    nsteps        \* history: the number of instructions executed

vars == <<rom, keys, state, output, breakpoints, file, saved, dbg, last, nsteps>>

\* Characters a typed line is made of, and the line end
InputAlphabet == keys
NewLine == 10

RECURSIVE Strings(_)
Strings(n) ==
    IF n = 0 THEN {<<>>}
    ELSE Strings(n - 1) \cup
         {Append(s, c) : s \in {x \in Strings(n - 1) : Len(x) = n - 1}, c \in InputAlphabet}

\* Debugger::get_input: the lines read_line can return (with their line
\* end, or without it at the end of the input), other than "!"
InputLines == {s \o e : s \in Strings(MaxInput), e \in {<<>>, <<NewLine>>}}

\* The result of a step_vm: the execution state after it, whether the
\* process goes on ("no"), ends with an error ("error") or panics
\* ("panic"), whether Machine::step ran, and its result.
StepResult(st, exit, ran, o) ==
    [st |-> st, exit |-> exit, ran |-> ran, res |-> o.res, err |-> o.err,
     c |-> o.c, reg |-> o.reg]

NotRun(exit, st, err) ==
    StepResult(st, exit, FALSE, [res |-> None, err |-> err, c |-> 0, reg |-> 0])

ExitOf(o) == IF o.res = "Panic" THEN "panic" ELSE "error"

\* step_vm after Machine::step returned Input(reg) and set_input gave i
AfterInput(o, i) ==
    IF i.res = "Continue"
    THEN StepResult([tag |-> "Running", reg |-> 0, m |-> i.m], "no", TRUE, o)
    ELSE StepResult([tag |-> "Stalled", reg |-> o.reg, m |-> i.m],
                    ExitOf(i), TRUE, [o EXCEPT !.err = i.err])

\* step_vm after Machine::step returned o
AfterStep(o) ==
    CASE o.res \in {"Continue", "Output"} ->
            {StepResult([tag |-> "Running", reg |-> 0, m |-> o.m], "no", TRUE, o)}
      [] o.res = "Halted" ->
            {StepResult([tag |-> "Halted", reg |-> 0, m |-> o.m], "no", TRUE, o)}
      [] o.res = "Input" ->
            {StepResult([tag |-> "Stalled", reg |-> o.reg, m |-> o.m], "no", TRUE, o)}
            \cup {AfterInput(o, SetInput(o.m, o.reg, line)) : line \in InputLines}
      [] OTHER ->
            {StepResult([tag |-> "Running", reg |-> 0, m |-> o.m], ExitOf(o), TRUE, o)}

\* step_vm from a Running machine
RunMachine(m) == UNION {AfterStep(o) : o \in Step(m)}

\* step_vm from a Stalled machine after set_input gave i
Resumed(s1, i) ==
    IF i.res = "Continue" THEN RunMachine(i.m)
    ELSE {NotRun(ExitOf(i), [s1 EXCEPT !.m = i.m], i.err)}

\* A variant of step_vm that steps a Halted machine like a Running one
StepStateRunsHalted(s1) ==
    CASE s1.tag = "Halted" -> RunMachine(s1.m)
      [] s1.tag = "Stalled" ->
            {NotRun("no", s1, None)}
            \cup UNION {Resumed(s1, SetInput(s1.m, s1.reg, line)) : line \in InputLines}
      [] s1.tag = "Running" -> RunMachine(s1.m)

\* A variant of step_vm that takes a Stalled machine whose input was
\* declined for a Running one
StepStateDeclinedRuns(s1) ==
    CASE s1.tag = "Halted" -> {NotRun("no", s1, None)}
      [] s1.tag = "Stalled" ->
            {NotRun("no", [s1 EXCEPT !.tag = "Running"], None)}
            \cup UNION {Resumed(s1, SetInput(s1.m, s1.reg, line)) : line \in InputLines}
      [] s1.tag = "Running" -> RunMachine(s1.m)

\* step_vm's match on the execution state s1
StepState(s1) ==
    CASE s1.tag = "Halted" -> {NotRun("no", s1, None)}
      [] s1.tag = "Stalled" ->
            {NotRun("no", s1, None)}
            \cup UNION {Resumed(s1, SetInput(s1.m, s1.reg, line)) : line \in InputLines}
      [] s1.tag = "Running" -> RunMachine(s1.m)

\* step_vm after the instruction trace's peek
StepTraced(st, traced) ==
    IF ~traced.ok THEN {NotRun("error", [st EXCEPT !.m = traced.m], traced.err)}
    ELSE StepState([st EXCEPT !.m = traced.m])

\* Debugger::step_vm: the results a step of execution state st can have,
\* with instruction tracing on (out) or off.
StepVm(st, out) ==
    StepTraced(st, IF out /\ st.tag # "Halted" THEN PeekInstr(st.m)
                   ELSE [ok |-> TRUE, m |-> st.m])

\* Machine::new for a ROM given as its words: the initial machines
MachineNew(rom_data) ==
    {[mem |-> r.mem, veclen |-> r.veclen, pos |-> 0, wm |-> r.wm,
      regs |-> [i \in 0..(NumRegs - 1) |-> 0], stack |-> <<>>, inbuf |-> <<>>]
     : r \in {x \in MemoryNew(Nz([a \in 0..(Len(rom_data) - 1) |-> rom_data[a + 1]]),
                              2 * Len(rom_data)) : x.ok}}

\* ------------------------------------------------------------------- ROMs

\* The instructions generated ROMs are made of
Menu ==
    { <<0>>,                        \* halt
      <<18>>,                       \* ret
      <<20, 32768>>,                \* in r0
      <<1, 32769, 32768>>,          \* set r1 r0
      <<2, 5>>,                     \* push 5
      <<3, 32768>>,                 \* pop r0
      <<17, 3>>,                    \* call 3
      <<16, 2, 300>>,               \* wmem 2 300
      <<22>>,                       \* no opcode
      <<19, 72>>,                   \* out 'H'
      <<9, 32768, 32768, 32767>>,   \* add r0 r0 32767
      <<6, 0>> }                    \* jmp 0

RECURSIVE Programs(_)
Programs(n) ==
    IF n = 0 THEN {<<>>}
    ELSE Programs(n - 1) \cup
         {i \o p : i \in Menu, p \in Programs(n - 1)}

\* The scenarios of the specification
Hello == <<19, 72, 19, 105, 0>>
RegisterArithmetic == <<1, 32768, 3, 1, 32769, 4, 9, 32770, 32768, 32769, 0>>
ModularWrap == <<1, 32768, 32767, 9, 32768, 32768, 2, 0>>
CallRet == <<17, 5, 0, 0, 0, 18>>

\* push 5; set r1 9; in r2; halt
StallWithStack == <<2, 5, 1, 32769, 9, 20, 32770, 0>>

\* in r0; in r1; halt
TwoInputs == <<20, 32768, 20, 32769, 0>>

Roms == (Programs(MaxInstrs) \ {<<>>})
        \cup {Hello, RegisterArithmetic, ModularWrap, CallRet, StallWithStack, TwoInputs}

\* --------------------------------------------------------------- commands

Report(op, first, r, t) ==
    [op |-> op, first |-> first, ran |-> r.ran, res |-> r.res, err |-> r.err,
     c |-> r.c, reg |-> r.reg, brk |-> t.reason, bp |-> t.bp, berr |-> t.err]

NoStepResult == [ran |-> FALSE, res |-> None, err |-> None, c |-> 0, reg |-> 0]
NoBreak == [reason |-> None, bp |-> 0, err |-> None]

InitWith(roms, typed) ==
    /\ rom \in roms
    /\ keys = typed
    /\ \E m \in MachineNew(rom) : state = [tag |-> "Running", reg |-> 0, m |-> m]
    /\ output = FALSE
    /\ breakpoints = <<>>
    /\ file = <<>>
    /\ saved = <<>>
    /\ dbg = "prompt"
    /\ last = Report("start", FALSE, NoStepResult, NoBreak)
    /\ nsteps = 0

\* The user types the letter a
Ascii == {97}

\* debug(): the debugger is built around a machine made from the ROM
Init == InitWith(Roms, Ascii)

\* The loop's match on t, the result of triggered_breakpoint after the
\* step_vm that gave r: a Reason breaks the loop.
Checked(r, t, first, after) ==
    /\ state' = [r.st EXCEPT !.m = t.m]
    /\ last' = Report("step", first, r, t)
    /\ IF t.ok /\ t.reason # None THEN dbg' = "prompt" ELSE dbg' \in after

\* One turn of the loop of "c" and "s": step_vm, then triggered_breakpoint.
\* An error of step_vm leaves debug(); an error of triggered_breakpoint is
\* printed and the loop goes on.  `after` are the places the loop can be in
\* when it does not break.
Iteration(first, after) ==
    /\ nsteps < MaxSteps
    /\ \E r \in StepVm(state, output) :
          /\ nsteps' = nsteps + (IF r.ran THEN 1 ELSE 0)
          /\ IF r.exit # "no"
             THEN /\ state' = r.st
                  /\ dbg' = IF r.exit = "panic" THEN "crashed" ELSE "exited"
                  /\ last' = Report("step", first, r, NoBreak)
             ELSE Checked(r, TriggeredBreakpoint(r.st, breakpoints), first, after)
    /\ UNCHANGED <<rom, keys, output, breakpoints, file, saved>>

\* "c": continue
CmdContinue == dbg = "prompt" /\ Iteration(TRUE, {"c"})

\* "s [n]": step n times; n = 1 ends after the first turn
CmdStep == dbg = "prompt" /\ Iteration(TRUE, {"prompt", "s"})

\* a further turn of the loop of "c"
ContinueLoop == dbg = "c" /\ Iteration(FALSE, {"c"})

\* a further turn of the loop of "s n", which may be the last
StepLoop == dbg = "s" /\ Iteration(FALSE, {"prompt", "s"})

\* The debugger after curr_instr peeked p
Shown(p) ==
    /\ state' = [state EXCEPT !.m = p.m]
    /\ last' = Report("peek", FALSE,
                      [NoStepResult EXCEPT !.res = IF p.ok THEN "ok" ELSE "Error",
                                           !.err = IF p.ok THEN None ELSE p.err],
                      NoBreak)

\* "i": Debugger::curr_instr
CmdShowInstr ==
    /\ dbg = "prompt"
    /\ Shown(IF state.tag = "Halted" THEN [ok |-> TRUE, err |-> None, m |-> state.m]
             ELSE PeekInstr(state.m))
    /\ UNCHANGED <<rom, keys, output, breakpoints, file, saved, dbg, nsteps>>

\* "> <sink>" and ">": Debugger::set_output turns the trace on or off
CmdSetOutput ==
    /\ dbg = "prompt"
    /\ output' \in BOOLEAN
    /\ last' = Report("trace", FALSE, NoStepResult, NoBreak)
    /\ UNCHANGED <<rom, keys, state, breakpoints, file, saved, dbg, nsteps>>

\* "v": Debugger::save_vm
CmdSave ==
    /\ dbg = "prompt"
    /\ \E r \in SaveVm(state) :
          /\ file' = <<r.file>>
          /\ saved' = <<state>>
          /\ dbg' = IF r.ok THEN "prompt" ELSE "crashed"
          /\ last' = Report("save", FALSE,
                            [NoStepResult EXCEPT !.res = IF r.ok THEN "ok" ELSE "Panic"],
                            NoBreak)
    /\ UNCHANGED <<rom, keys, state, output, breakpoints, nsteps>>

\* "l": Debugger::load_vm
CmdLoad ==
    /\ dbg = "prompt"
    /\ file # <<>>
    /\ \E r \in LoadVm(file[1]) :
          /\ state' = IF r.ok THEN r.st ELSE state
          /\ dbg' = IF r.panic THEN "crashed" ELSE "prompt"
          /\ last' = Report("load", FALSE,
                            [NoStepResult EXCEPT
                                !.res = IF r.ok THEN "ok" ELSE IF r.panic THEN "Panic" ELSE "Error",
                                !.err = r.err],
                            NoBreak)
    /\ UNCHANGED <<rom, keys, output, breakpoints, file, saved, nsteps>>

Next ==
    \/ CmdContinue
    \/ CmdStep
    \/ ContinueLoop
    \/ StepLoop
    \/ CmdShowInstr
    \/ CmdSetOutput
    \/ CmdSave
    \/ CmdLoad

Spec == Init /\ [][Next]_vars

\* ------------------------------------------------- debugging with breakpoints

\* <<noop>>, a word that is no opcode, set r0 5, halt
BreakSkip == <<21, 22, 1, 32768, 5, 0>>

\* set r1 2; rmem r0 r1; push r0; wmem r0 9; wmem 2 r0; halt
MemAccess == <<1, 32769, 2, 15, 32768, 32769, 2, 32768, 16, 32768, 9, 16, 2, 32768, 0>>

\* noop, a word that is no opcode, wmem 2 9, halt
WriteSkip == <<21, 22, 16, 2, 9, 0>>

DbgRoms == {BreakSkip, RegisterArithmetic, CallRet, TwoInputs, MemAccess, WriteSkip}

\* The breakpoints "b <op> <loc>" is given: Target::from_str makes a
\* register or a memory address of loc, and "@" wants an address.
Targets == {[mem |-> FALSE, v |-> 0], [mem |-> TRUE, v |-> 2]}

Breakpoints ==
    {[kind |-> k, mem |-> t.mem, v |-> t.v] : k \in {"Read", "Write", "Access"}, t \in Targets}
    \cup {[kind |-> "At", mem |-> TRUE, v |-> t.v] : t \in {x \in Targets : x.mem}}

\* A breakpoint of the list carries the history field seq: its rank, by
\* time of adding, among the breakpoints of the list.

\* Vec::push: the breakpoint goes to the end of the list
Push(bps, bp) ==
    Append(bps, [kind |-> bp.kind, mem |-> bp.mem, v |-> bp.v, seq |-> Len(bps) + 1])

\* Vec::remove(n), n counted from 1: the rest keeps its order
Remove(bps, n) == SubSeq(bps, 1, n - 1) \o SubSeq(bps, n + 1, Len(bps))

\* The ranks by time of adding, after a removal
Ranked(bps) ==
    [i \in 1..Len(bps) |->
        [bps[i] EXCEPT !.seq = Cardinality({j \in 1..Len(bps) : bps[j].seq <= bps[i].seq})]]

\* "b <op> <loc>": Debugger::add_breakpoint
CmdAddBreakpoint ==
    /\ dbg = "prompt"
    /\ Len(breakpoints) < MaxBreakpoints
    /\ \E bp \in Breakpoints : breakpoints' = Push(breakpoints, bp)
    /\ last' = Report("break", FALSE, NoStepResult, NoBreak)
    /\ UNCHANGED <<rom, keys, state, output, file, saved, dbg, nsteps>>

\* "bx n" and "bx *": Debugger::delete_breakpoint
CmdDeleteBreakpoint ==
    /\ dbg = "prompt"
    /\ \/ \E n \in 1..Len(breakpoints) : breakpoints' = Ranked(Remove(breakpoints, n))
       \/ breakpoints # <<>> /\ breakpoints' = <<>>
    /\ last' = Report("delete", FALSE, NoStepResult, NoBreak)
    /\ UNCHANGED <<rom, keys, state, output, file, saved, dbg, nsteps>>

InitDbg == InitWith(DbgRoms, Ascii)

NextDbg ==
    \/ CmdContinue
    \/ CmdStep
    \/ ContinueLoop
    \/ StepLoop
    \/ CmdShowInstr
    \/ CmdSetOutput
    \/ CmdAddBreakpoint
    \/ CmdDeleteBreakpoint

SpecDbg == InitDbg /\ [][NextDbg]_vars

\* ----------------------------------------------------------------- claims

\* The state was just loaded from the save file
Loaded == last.op = "load" /\ last.res = "ok" /\ saved # <<>>

\* The save file was written in full
Written == file # <<>> /\ saved # <<>> /\ file[1].len > 2

\* The words of a ROM as a memory
RomWords(r) == Nz([a \in 0..(Len(r) - 1) |-> r[a + 1]])

\* C1: saving and reloading scenario #2 at any point and stepping to
\* completion gives the final registers (r0 = 3, r1 = 4, r2 = 7) and memory
\* of the uninterrupted run.
C1_Scenario2RoundTrip ==
    (rom = RegisterArithmetic /\ state.tag = "Halted")
        => /\ state.m.regs = [r \in 0..(NumRegs - 1) |->
                                IF r = 0 THEN 3 ELSE IF r = 1 THEN 4 ELSE IF r = 2 THEN 7 ELSE 0]
           /\ state.m.mem = RomWords(RegisterArithmetic)

\* C2: after save and load every memory word of the loaded machine equals
\* the word at the same address of the saved machine.
C2_MemoryRoundTrip ==
    Loaded => \A a \in DOMAIN state.m.mem \cup DOMAIN saved[1].m.mem :
                 Get(state.m.mem, a) = Get(saved[1].m.mem, a)

FileMemBytes == BufReadU16(file[1], 4).w

\* C4: in a written save file the memory image occupies bytes
\* [6, 6 + mem_bytes) unmodified and the eight registers start at byte
\* 6 + mem_bytes + mem_bytes / 2.
C4_SaveLayout ==
    Written =>
        /\ \A i \in 0..(FileMemBytes - 1) :
              Get(file[1].b, 6 + i) = MemByte(saved[1].m.mem, i)
        /\ \A r \in 0..(NumRegs - 1) :
              LET w == BufReadU16(file[1], 6 + FileMemBytes + FileMemBytes \div 2 + 2 * r)
              IN  w.ok /\ w.w = saved[1].m.regs[r]

\* triggered_breakpoint would yield on the instruction machine m is at
Triggers(m, bps) == TriggeredAt(PeekInstr(m), bps).reason = "Triggered"

\* C5: in the loop of "c" and "s n" no instruction that triggers a
\* breakpoint is executed without the debugger having yielded before it: a
\* further turn of the loop never executes a triggering instruction.
C5_YieldBeforeTrigger ==
    [][(dbg \in {"c", "s"} /\ state.tag = "Running" /\ last'.op = "step" /\ last'.ran)
          => ~Triggers(state.m, breakpoints)]_vars

\* C6: a peek_instr that succeeds leaves IP, registers, stack, memory and
\* watermark as they were, so any number of them do.
C6_PeekFrame ==
    [][(last'.op = "peek" /\ last'.res = "ok") => state'.m = state.m]_vars

\* C6's case: a ret with a return address on the stack was peeked.
C6_Witness ==
    /\ last.op = "peek" /\ last.res = "ok"
    /\ state.tag = "Running"
    /\ Get(state.m.mem, Ip(state.m)) = 18
    /\ state.m.stack # <<>>

\* C7: when peek_instr fails, IP after the call equals IP before it.
C7_FailedPeekKeepsIp ==
    [][(last'.op = "peek" /\ last'.res = "Error") => Ip(state'.m) = Ip(state.m)]_vars

\* C8: a step of a Halted state leaves it Halted, with machine unchanged,
\* and executes nothing.
C8_HaltedAbsorbing ==
    [][(state.tag = "Halted" /\ last'.op = "step") => (state' = state /\ ~last'.ran)]_vars

\* C8's case: a step was asked of a Halted state.
C8_Witness == state.tag = "Halted" /\ last.op = "step" /\ ~last.ran

\* The word the cursor of m is at, -1 at the end of memory
WordAt(m, k) ==
    IF m.pos + 2 * k + 2 <= m.veclen THEN Get(m.mem, m.pos \div 2 + k) ELSE -1

\* Machine::step ran from the Running state of this step
SteppedRunning == state.tag = "Running" /\ last'.op = "step" /\ last'.ran

\* Registers, memory, watermark and stack are left as they were
MachineFrame ==
    /\ state'.m.regs = state.m.regs
    /\ state'.m.mem = state.m.mem
    /\ state'.m.wm = state.m.wm
    /\ state'.m.stack = state.m.stack

\* C9: a step from Running yields Halted exactly when the instruction at
\* IP is halt, or is ret with the stack empty; it is then no error and
\* registers, memory and stack are unchanged.
C9_HaltedIff ==
    [][SteppedRunning =>
          /\ (last'.res = "Halted") <=>
                (WordAt(state.m, 0) = 0
                 \/ (WordAt(state.m, 0) = 18 /\ state.m.stack = <<>>))
          /\ last'.res = "Halted" =>
                (state'.tag = "Halted" /\ last'.err = None /\ MachineFrame)]_vars

\* C9's case: a ret on an empty stack halted the machine.
C9_Witness ==
    /\ state.tag = "Halted" /\ last.op = "step" /\ last.ran /\ last.res = "Halted"
    /\ Ip(state.m) > 0
    /\ Get(state.m.mem, Ip(state.m) - 1) = 18
    /\ state.m.stack = <<>>

\* C10: a step from Running yields the Input outcome exactly when the
\* instruction at IP is "in r" and the input buffer is empty; the stalled
\* state records r, has IP past the instruction, and has registers, memory
\* and stack unchanged.
C10_StalledIff ==
    [][SteppedRunning =>
          /\ (last'.res = "Input") <=>
                (/\ WordAt(state.m, 0) = 20
                 /\ RegisterTryFrom(WordAt(state.m, 1)).ok
                 /\ state.m.inbuf = <<>>)
          /\ last'.res = "Input" => last'.reg = WordAt(state.m, 1) - RegBase
          /\ (last'.res = "Input" /\ state'.tag = "Stalled") =>
                (/\ state'.reg = last'.reg
                 /\ Ip(state'.m) = Ip(state.m) + 2
                 /\ MachineFrame)]_vars

\* C10's case: "in r2" stalled a machine with a register set and a stack
\* entry.
C10_Witness ==
    /\ state.tag = "Stalled" /\ last.op = "step" /\ last.ran /\ last.res = "Input"
    /\ state.reg = 2
    /\ state.m.regs[1] = 9
    /\ state.m.stack = <<5>>

\* -------------------------------------------------------------- typed input

\* in r0; in r1; in r2; halt
ThreeInputs == <<20, 32768, 20, 32769, 20, 32770, 0>>

InputRoms == {TwoInputs, ThreeInputs, StallWithStack}

\* The user types the letter a and U+8000, whose code is the word of r0
Typed == {97, 32768}

InitInput == InitWith(InputRoms, Typed)

SpecInput == InitInput /\ [][Next]_vars

\* C11: providing a non-empty input string to a Stalled machine yields a
\* Running machine whose stalled register holds the code of the first
\* character and whose buffer holds the rest; IP, memory, stack and the
\* other registers are unchanged.
C11_ProvideInput ==
    state.tag = "Stalled" =>
        \A line \in InputLines \ {<<>>} :
            LET i == SetInput(state.m, state.reg, line)
            IN  /\ i.res = "Continue"
                /\ i.m = [state.m EXCEPT !.regs[state.reg] = line[1],
                                         !.inbuf = Tail(line)]

\* "in r" is the instruction machine m is at
InAt(m) == WordAt(m, 0) = 20 /\ RegisterTryFrom(WordAt(m, 1)).ok

\* C12: after an input string is provided, the executions of in receive its
\* characters in order, one each, removed from the buffer when consumed:
\* the in that stalled receives the first character of the line, and an in
\* executed on a non-empty buffer receives the buffer's first character.
C12_CharactersInOrder ==
    [][SteppedRunning /\ InAt(state.m) =>
          /\ (last'.res = "Input" /\ state'.tag = "Running") =>
                \E line \in InputLines \ {<<>>} :
                    /\ state'.m.regs = [state.m.regs EXCEPT ![last'.reg] = line[1]]
                    /\ state'.m.inbuf = Tail(line)
          /\ state.m.inbuf # <<>> =>
                /\ last'.res = "Continue"
                /\ state'.m.regs = [state.m.regs EXCEPT
                                      ![WordAt(state.m, 1) - RegBase] = Head(state.m.inbuf)]
                /\ state'.m.inbuf = Tail(state.m.inbuf)]_vars

\* C13: stepping a Stalled state without supplying input leaves the state
\* as it is: Stalled, with the same register, IP, registers, memory and
\* stack.
C13_DeclinedInput ==
    [][(state.tag = "Stalled" /\ last'.op = "step" /\ ~last'.ran /\ dbg' \in {"prompt", "c", "s"})
          => state' = state]_vars

\* C13's case: a Stalled state was stepped and the input declined.
C13_Witness ==
    /\ state.tag = "Stalled" /\ state.reg = 2 /\ state.m.stack = <<5>>
    /\ last.op = "step" /\ ~last.ran /\ last.brk = "Stalled"

\* C14: the loop of "c" exits right after the first step that leaves the
\* execution state Stalled or Halted, reporting the reason Stalled or
\* Halted, whatever breakpoints are defined.
C14_StallAndHaltBreak ==
    [][(last'.op = "step" /\ state'.tag \in {"Stalled", "Halted"}
        /\ dbg' \notin {"exited", "crashed"})
          => (dbg' = "prompt" /\ last'.brk = state'.tag)]_vars

\* C14's case: with a breakpoint defined, a later turn of the loop left
\* the machine Stalled and the loop reported it.
C14_Witness ==
    /\ breakpoints # <<>>
    /\ last.op = "step" /\ ~last.first /\ last.ran
    /\ state.tag = "Stalled" /\ last.brk = "Stalled"
    /\ dbg = "prompt"

\* The breakpoints of the list the instruction machine m is at triggers
Hits(m, bps) ==
    {i \in 1..Len(bps) :
        PeekInstr(m).ok /\ IsTriggered(bps[i], Ip(m), PeekInstr(m).op, PeekInstr(m).d)}

\* C15: when several breakpoints of the list are triggered by the same
\* instruction, the one reported is the one added earliest among those
\* still in the list.
C15_EarliestAddedWins ==
    (last.op = "step" /\ last.brk = "Triggered") =>
        /\ last.bp \in Hits(state.m, breakpoints)
        /\ \A j \in Hits(state.m, breakpoints) :
              breakpoints[last.bp].seq <= breakpoints[j].seq

\* C15's case: two breakpoints of the list are triggered by the same
\* instruction and one was reported.
C15_Witness ==
    /\ last.op = "step" /\ last.brk = "Triggered"
    /\ Cardinality(Hits(state.m, breakpoints)) = 2
    /\ breakpoints[1].kind # breakpoints[2].kind

\* ------------------------------------------------------- access breakpoints

\* The targets "b <op> <loc>" can name: the registers and the addresses
AllTargets ==
    {[mem |-> FALSE, v |-> r] : r \in 0..(NumRegs - 1)}
    \cup {[mem |-> TRUE, v |-> a] : a \in 0..16}

\* The breakpoint of kind k on target t
Bp(k, t) == [kind |-> k, mem |-> t.mem, v |-> t.v]

\* The breakpoint bp is triggered by the peeked instruction p
TriggeredBy(bp, p) == IsTriggered(bp, Ip(p.m), p.op, p.d)

\* The register reference of register r is a value operand of op
ValueOperand(op, r) ==
    \E i \in 1..Len(op.args) : Operands(op.id)[i] = "v" /\ op.args[i] = RegBase + r

\* What C16 says of the peeked instruction p
ReadsAsClaimed(p) ==
    /\ \A a \in 0..16 :
          TriggeredBy(Bp("Read", [mem |-> TRUE, v |-> a]), p)
              <=> (p.op.id = 15 /\ RegRead(p.m.regs, p.op.args[2]) = a)
    /\ \A r \in 0..(NumRegs - 1) :
          ValueOperand(p.op, r) => TriggeredBy(Bp("Read", [mem |-> FALSE, v |-> r]), p)

NextPeeked(p) == state.tag = "Running" /\ p.ok

\* C16: Read(Mem(a)) is triggered exactly when the next instruction is
\* rmem with its address operand resolving to a, and Read(Reg(r)) is
\* triggered whenever a value operand of the next instruction is the
\* register reference r.
C16_ReadBreakpoints ==
    NextPeeked(PeekInstr(state.m)) => ReadsAsClaimed(PeekInstr(state.m))

\* What C17 says of the peeked instruction p
WritesMemAsClaimed(p) ==
    \A a \in 0..16 :
        TriggeredBy(Bp("Write", [mem |-> TRUE, v |-> a]), p)
            <=> (p.op.id = 16 /\ RegRead(p.m.regs, p.op.args[1]) = a)

\* Write(Mem(a)) is a breakpoint of the list
Watched(a) == \E i \in 1..Len(breakpoints) : breakpoints[i].kind = "Write" /\ breakpoints[i].mem /\ breakpoints[i].v = a

\* C17: Write(Mem(a)) is triggered exactly when the next instruction is
\* wmem with its address operand resolving to a; consequently an
\* instruction executed in a further turn of the loop of "c", which no
\* yield preceded, changes no memory word a for which Write(Mem(a)) is in
\* the list.
C17_WriteMemBreakpoints ==
    /\ [](NextPeeked(PeekInstr(state.m)) => WritesMemAsClaimed(PeekInstr(state.m)))
    /\ [][(dbg = "c" /\ last'.op = "step" /\ last'.ran) =>
             \A a \in 0..16 :
                 Watched(a) => Get(state'.m.mem, a) = Get(state.m.mem, a)]_vars

\* triggered_breakpoint reports At(a), the only breakpoint, for state st
AtReported(st, a) ==
    TriggeredBreakpoint(st, Push(<<>>, Bp("At", [mem |-> TRUE, v |-> a]))).reason = "Triggered"

\* The execution states a turn of the loop of "c" and "s" can call
\* triggered_breakpoint with, from the current state
Evaluated == {r.st : r \in {x \in StepVm(state, output) : x.exit = "no"}}

\* C18: whenever triggered_breakpoint is called with a Running state whose
\* IP is a, At(a) is reported as triggered, whatever instruction is stored
\* at a, and with a state whose IP is not a it is not.
C18_AtBreakpoint ==
    dbg \in {"prompt", "c", "s"} =>
        \A st \in Evaluated :
            st.tag = "Running" =>
                \A a \in 0..16 : AtReported(st, a) <=> Ip(st.m) = a

\* What C19 says of the peeked instruction p
AccessIsUnion(p) ==
    \A t \in AllTargets :
        TriggeredBy(Bp("Access", t), p)
            <=> (TriggeredBy(Bp("Read", t), p) \/ TriggeredBy(Bp("Write", t), p))

\* C19: for every next instruction, register file and target t, Access(t)
\* is triggered exactly when Read(t) is triggered or Write(t) is.
C19_AccessIsReadOrWrite ==
    NextPeeked(PeekInstr(state.m)) => AccessIsUnion(PeekInstr(state.m))

\* C19's case: the loop reported an Access breakpoint on a memory word
\* that the next instruction, a wmem, writes and does not read.
C19_Witness ==
    /\ last.op = "step" /\ last.brk = "Triggered"
    /\ breakpoints[last.bp].kind = "Access" /\ breakpoints[last.bp].mem
    /\ WordAt(state.m, 0) = 16
    /\ ~TriggeredBy(Bp("Read", [mem |-> TRUE, v |-> breakpoints[last.bp].v]), PeekInstr(state.m))

\* --------------------------------------------------- breakpoint on a write

WatchRoms == {RegisterArithmetic, ModularWrap, Hello}

\* The breakpoint of "b w r2"
WriteR2 == Bp("Write", [mem |-> FALSE, v |-> 2])

\* "b w r2": Debugger::add_breakpoint
CmdWatchR2 ==
    /\ dbg = "prompt"
    /\ Len(breakpoints) < MaxBreakpoints
    /\ breakpoints' = Push(breakpoints, WriteR2)
    /\ last' = Report("break", FALSE, NoStepResult, NoBreak)
    /\ UNCHANGED <<rom, keys, state, output, file, saved, dbg, nsteps>>

InitWatch == InitWith(WatchRoms, Ascii)

NextWatch ==
    \/ CmdContinue
    \/ CmdStep
    \/ ContinueLoop
    \/ StepLoop
    \/ CmdShowInstr
    \/ CmdSetOutput
    \/ CmdWatchR2
    \/ CmdDeleteBreakpoint

SpecWatch == InitWatch /\ [][NextWatch]_vars

\* Scenario #2 is debugged with the single breakpoint Write(Reg(r2))
WatchedScenario == rom = RegisterArithmetic /\ breakpoints = Push(<<>>, WriteR2)

\* C20: with the single breakpoint Write(Reg(r2)) and scenario #2 started
\* at IP 0, the first turn of a continue does not yield and its second
\* turn yields on the breakpoint with IP at the add (address 6), r0 = 3,
\* r1 = 4 and r2 = 0; the first turn of a second continue does not yield
\* and its second turn ends in Halted with r2 = 7.
C20_BreakBeforeAdd ==
    [][(WatchedScenario /\ last'.op = "step") =>
          /\ (dbg = "prompt" /\ nsteps \in {0, 2}) =>
                (last'.ran /\ last'.brk = None /\ dbg' # "exited" /\ dbg' # "crashed")
          /\ (dbg = "c" /\ nsteps = 1) =>
                /\ dbg' = "prompt" /\ last'.brk = "Triggered" /\ last'.bp = 1
                /\ state'.tag = "Running" /\ Ip(state'.m) = 6
                /\ state'.m.regs[0] = 3 /\ state'.m.regs[1] = 4 /\ state'.m.regs[2] = 0
          /\ (dbg = "c" /\ nsteps = 3) =>
                /\ dbg' = "prompt" /\ last'.brk = "Halted"
                /\ state'.tag = "Halted" /\ state'.m.regs[2] = 7]_vars

\* C20's case: the loop of "c" ended scenario #2 in Halted with r2 = 7
\* under the single breakpoint Write(Reg(r2)).
C20_Witness ==
    /\ WatchedScenario
    /\ last.op = "step" /\ ~last.first /\ last.brk = "Halted"
    /\ state.tag = "Halted" /\ nsteps = 4
    /\ state.m.regs[0] = 3 /\ state.m.regs[1] = 4 /\ state.m.regs[2] = 7

\* ------------------------------------------------------- outcomes of a step

\* C21: a step of a Running machine, and the provide-input that follows a
\* stall, produce Continue, Output, Input, Halted or an error value, and
\* never end the process abnormally.
C21_NoAbnormalTermination ==
    [][last'.op = "step" => dbg' # "crashed"]_vars

\* --------------------------------------------------------------- arithmetic

\* Operand values: small ones, a power of two whose square passes 16 bits,
\* and the largest literal
ArithVals == {0, 1, 3, 4, 256, 32767}

\* set r1 b; <op> r2 a r1; halt, and for not: set r1 b; not r2 r1; halt
ArithRom(id, a, b) ==
    IF id = 14 THEN <<1, 32769, b, 14, 32770, 32769, 0>>
    ELSE <<1, 32769, b, id, 32770, a, 32769, 0>>

\* The ids of eq, gt, add, mult, mod, and, or, not
ArithOps == {4, 5, 9, 10, 11, 12, 13, 14}

ArithRoms ==
    {ArithRom(id, a, b) : id \in ArithOps, a \in ArithVals, b \in ArithVals}
    \cup {RegisterArithmetic, ModularWrap}

InitArith == InitWith(ArithRoms, Ascii)

NextArith ==
    \/ CmdContinue
    \/ CmdStep
    \/ ContinueLoop
    \/ StepLoop
    \/ CmdShowInstr
    \/ CmdSetOutput

SpecArith == InitArith /\ [][NextArith]_vars

\* The instruction machine m is at has one of the ids
OpAt(m, ids) == FetchOp(m).ok /\ FetchOp(m).op.id \in ids

\* Its destination register and its resolved operands
DstAt(m) == WordAt(m, 1) - RegBase
ValAt(m, k) == RegRead(m.regs, WordAt(m, k))

\* Machine m after an instruction of n words that wrote v to its
\* destination register
WroteTo(m, n, v) == [m EXCEPT !.regs[DstAt(m)] = v, !.pos = m.pos + 2 * n]

\* C22: for resolved operands a, b in 0..32767, add writes (a + b) mod
\* 32768 and mult writes (a * b) mod 32768 to the destination register,
\* and mod writes a mod b for b > 0; scenario #2 ends with r2 = 7 and the
\* modular-wrap scenario with r0 = 1.
C22_ModularArithmetic ==
    /\ [][(SteppedRunning /\ OpAt(state.m, {9, 10, 11})
           /\ ValAt(state.m, 2) <= MAX_ADDR /\ ValAt(state.m, 3) <= MAX_ADDR) =>
             /\ WordAt(state.m, 0) = 9 =>
                   (last'.res = "Continue" /\ state'.m =
                       WroteTo(state.m, 4, (ValAt(state.m, 2) + ValAt(state.m, 3)) % 32768))
             /\ WordAt(state.m, 0) = 10 =>
                   (last'.res = "Continue" /\ state'.m =
                       WroteTo(state.m, 4, (ValAt(state.m, 2) * ValAt(state.m, 3)) % 32768))
             /\ (WordAt(state.m, 0) = 11 /\ ValAt(state.m, 3) > 0) =>
                   (last'.res = "Continue" /\ state'.m =
                       WroteTo(state.m, 4, ValAt(state.m, 2) % ValAt(state.m, 3)))]_vars
    /\ []((rom = RegisterArithmetic /\ state.tag = "Halted") => state.m.regs[2] = 7)
    /\ []((rom = ModularWrap /\ state.tag = "Halted") => state.m.regs[0] = 1)

\* C22's case: mult of 32767 by 32767, whose product passes 16 bits, wrote
\* 1 to r2.
C22_Witness ==
    /\ rom = ArithRom(10, 32767, 32767)
    /\ last.op = "step" /\ last.ran /\ last.res = "Continue"
    /\ nsteps = 2
    /\ state.m.regs[2] = 1

\* ------------------------------------------------------- the end of memory

\* wmem 32766 17; wmem 32767 10; jmp 32766; halt; 0; pop r0; or r1 r0 r0;
\* halt: the program writes call 10 into the last two words of memory
PushedEnd ==
    <<16, 32766, 17, 16, 32767, 10, 6, 32766, 0, 0, 3, 32768, 13, 32769, 32768, 32768, 0>>

\* wmem 32767 21; jmp 32767; halt: the program writes noop into the last
\* word of memory
LastWord == <<16, 32767, 21, 6, 32767, 0>>

\* push 9; call 6; halt; 0; push 4; pop r1; ret
CallBalanced == <<2, 9, 17, 6, 0, 0, 2, 4, 3, 32769, 18>>

EdgeRoms == ArithRoms \cup {PushedEnd, LastWord, CallRet, CallBalanced}

InitEdge == InitWith(EdgeRoms, Ascii)

SpecEdge == InitEdge /\ [][NextArith]_vars

\* C23: every value written to a register by add, mult, mod, and, or,
\* not, eq or gt is below 32768; eq and gt write 1 or 0, and not writes
\* 32767 - v for v in 0..32767.
C23_WrittenValues ==
    [][(SteppedRunning /\ OpAt(state.m, ArithOps) /\ last'.res = "Continue") =>
          /\ state'.m.regs[DstAt(state.m)] < 32768
          /\ WordAt(state.m, 0) \in {4, 5} => state'.m.regs[DstAt(state.m)] \in {0, 1}
          /\ (WordAt(state.m, 0) = 14 /\ ValAt(state.m, 2) <= MAX_ADDR) =>
                state'.m.regs[DstAt(state.m)] = 32767 - ValAt(state.m, 2)]_vars

\* C24: in every reachable Running or Stalled state the IP is in 0..32767
\* and the memory cursor is at an even byte offset.
C24_IpInRange ==
    (state.tag \in {"Running", "Stalled"} /\ dbg \in {"prompt", "c", "s"}) =>
        (Ip(state.m) >= 0 /\ Ip(state.m) <= 32767 /\ state.m.pos % 2 = 0)

\* The stack without its top
Popped(st) == SubSeq(st, 1, Len(st) - 1)

\* C25: call a pushes the address of the instruction after the call and
\* sets IP to the resolved a; ret on a non-empty stack pops the top entry
\* and sets IP to it; a call followed by a ret, with a balanced stack in
\* between, resumes after the call with the stack as it was before it.
\* The call-ret scenario executes call, ret, halt and ends with an empty
\* stack.
C25_CallAndRet ==
    /\ [][(SteppedRunning /\ OpAt(state.m, {17})) =>
             (last'.res = "Continue" /\ state'.m =
                 [state.m EXCEPT !.stack = Append(state.m.stack, Ip(state.m) + 2),
                                 !.pos = 2 * ValAt(state.m, 1)])]_vars
    /\ [][(SteppedRunning /\ OpAt(state.m, {18}) /\ state.m.stack # <<>>) =>
             (last'.res = "Continue" /\ state'.m =
                 [state.m EXCEPT !.stack = Popped(state.m.stack),
                                 !.pos = 2 * state.m.stack[Len(state.m.stack)]])]_vars
    /\ [](rom = CallBalanced =>
             /\ nsteps = 2 => (Ip(state.m) = 6 /\ state.m.stack = <<9, 4>>)
             /\ nsteps = 5 => (Ip(state.m) = 4 /\ state.m.stack = <<9>>))
    /\ [](rom = CallRet =>
             /\ nsteps = 1 => (Ip(state.m) = 5 /\ state.m.stack = <<2>>)
             /\ nsteps = 2 => (Ip(state.m) = 2 /\ state.m.stack = <<>>)
             /\ nsteps = 3 => (state.tag = "Halted" /\ state.m.stack = <<>>)
             /\ nsteps <= 3)

\* C25's case: the call-ret scenario halted after call, ret and halt.
C25_Witness ==
    /\ rom = CallRet
    /\ state.tag = "Halted" /\ last.op = "step" /\ last.res = "Halted"
    /\ nsteps = 3
    /\ state.m.stack = <<>>

\* ------------------------------------------------------------ memory access

\* rmem r0 4; halt; the data word w
RmemData(w) == <<15, 32768, 4, 0, w>>

\* Data words: a literal, the largest literal, the words of r1 and r7, the
\* word after them and the largest word
DataWords == {5, 32767, 32769, 32775, 32776, 65535}

\* set r1 12; wmem 11 r1; wmem r1 32767; halt
WmemBoth == <<1, 32769, 12, 16, 11, 32769, 16, 32769, 32767, 0>>

\* ROMs whose opcode word is w: no opcode for 22 and the data words but 5
OpWordRoms == {<<w, 0>> : w \in DataWords \cup {22}}

MemRoms ==
    {RmemData(w) : w \in DataWords} \cup {MemAccess, WmemBoth, LastWord} \cup OpWordRoms

InitMem == InitWith(MemRoms, Ascii)

SpecMem == InitMem /\ [][NextArith]_vars

\* C26: after rmem r a, register r holds the word stored at the resolved
\* address a, whatever word that is, and memory, stack and the other
\* registers are unchanged.
C26_RmemReadsWord ==
    [][(SteppedRunning /\ OpAt(state.m, {15}) /\ ValAt(state.m, 2) <= MAX_ADDR) =>
          /\ last'.res = "Continue"
          /\ state'.m = WroteTo(state.m, 3, Get(state.m.mem, ValAt(state.m, 2)))]_vars

\* C27: wmem a v sets the memory word at the resolved address a to the
\* resolved value v and leaves every other memory word, the registers and
\* the stack unchanged; afterwards IP is the address of the instruction
\* after the wmem.
C27_WmemFrame ==
    [][(SteppedRunning /\ OpAt(state.m, {16}) /\ ValAt(state.m, 1) <= MAX_ADDR) =>
          /\ last'.res = "Continue"
          /\ state'.m.mem = Put(state.m.mem, ValAt(state.m, 1), ValAt(state.m, 2))
          /\ state'.m.regs = state.m.regs
          /\ state'.m.stack = state.m.stack
          /\ Ip(state'.m) = Ip(state.m) + 3]_vars

\* C27's case: wmem 11 r1 and wmem r1 32767 wrote 12 to word 11 and 32767
\* to word 12, and IP is after the second wmem.
C27_Witness ==
    /\ rom = WmemBoth
    /\ last.op = "step" /\ last.res = "Continue"
    /\ nsteps = 3
    /\ Get(state.m.mem, 11) = 12 /\ Get(state.m.mem, 12) = 32767
    /\ Ip(state.m) = 9

\* ------------------------------------------------------- loading the ROM
\* Here debug() has not built its machine yet, and the ROM is kept as the
\* byte buffer of its file, since its length in bytes matters.

\* Lengths of ROM files around the limits of Memory::new
RomSizes == {0, 1, 2, 3, 4, 6, 7, 65534, 65535, 65536, 65537, 65538}

\* First words of a ROM file: halt, noop, ret, out 'H', three noops (the
\* rest is 0)
FirstWords == {<<0>>, <<21>>, <<18>>, <<19, 72>>, <<21, 21, 21>>}

\* The first n bytes of buffer buf
Truncated(buf, n) == [len |-> n, b |-> [o \in {x \in DOMAIN buf.b : x < n} |-> buf.b[o]]]

\* The ROM file of n bytes that starts with the words ws, as far as they fit
RomFile(n, ws) == Truncated(BufWriteWords(ZeroBuf(n), 0, ws), n)

RomFiles == {RomFile(n, w) : n \in RomSizes, w \in FirstWords}

\* No machine is built yet
NoMachine == [tag |-> "None", reg |-> 0, m |-> <<>>]

InitNew ==
    /\ rom \in RomFiles
    /\ keys = Ascii
    /\ state = NoMachine
    /\ output = FALSE
    /\ breakpoints = <<>>
    /\ file = <<>>
    /\ saved = <<>>
    /\ dbg = "start"
    /\ last = Report("start", FALSE, NoStepResult, NoBreak)
    /\ nsteps = 0

\* Machine::new around the result r of Memory::new
Started(r) ==
    IF r.ok
    THEN /\ state' = [tag |-> "Running", reg |-> 0,
                      m |-> [mem |-> r.mem, veclen |-> r.veclen, pos |-> 0, wm |-> r.wm,
                             regs |-> [i \in 0..(NumRegs - 1) |-> 0],
                             stack |-> <<>>, inbuf |-> <<>>]]
         /\ dbg' = "prompt"
         /\ last' = Report("new", FALSE, [NoStepResult EXCEPT !.res = "ok"], NoBreak)
    ELSE /\ state' = state
         /\ dbg' = IF r.panic THEN "crashed" ELSE "exited"
         /\ last' = Report("new", FALSE,
                           [NoStepResult EXCEPT !.res = IF r.panic THEN "Panic" ELSE "Error",
                                                !.err = r.err],
                           NoBreak)

\* debug(): Machine::new reads the ROM file and hands its bytes to
\* Memory::new; an error ends the program.
CmdStart ==
    /\ dbg = "start"
    /\ \E r \in MemoryNew(ImageWords(rom, 0, rom.len), rom.len) : Started(r)
    /\ UNCHANGED <<rom, keys, output, breakpoints, file, saved, nsteps>>

NextNew ==
    \/ CmdStart
    \/ CmdContinue
    \/ CmdStep
    \/ ContinueLoop
    \/ StepLoop
    \/ CmdShowInstr
    \/ CmdSetOutput

SpecNew == InitNew /\ [][NextNew]_vars

\* C28: Memory::new fails with InvalidMemorySize exactly when the length
\* is above 65536 or odd; for every other length it succeeds with a memory
\* of 65536 bytes, IP 0 and the watermark length / 2 - 1.
C28_MemoryNew ==
    last.op = "new" =>
        /\ (last.res # "ok") <=> (rom.len > 65536 \/ rom.len % 2 = 1)
        /\ last.res # "ok" => (last.res = "Error" /\ last.err = "InvalidMemorySize")
        /\ last.res = "ok" =>
              /\ state.m.veclen = 65536
              /\ state.m.pos = 0
              /\ state.m.wm = rom.len \div 2 - 1

\* --------------------------------------------------------------- fetching

\* Operand k of the instruction machine m is at is there and of its kind
OperandOk(m, kind, k) ==
    /\ WordAt(m, k) >= 0
    /\ IF kind = "r" THEN RegisterTryFrom(WordAt(m, k)).ok ELSE ValueTryFrom(WordAt(m, k)).ok

WellFormed(m, kinds) == \A k \in 1..Len(kinds) : OperandOk(m, kinds[k], k)

\* What C29 says of the fetch f from machine m, whose opcode word is u
FetchAsClaimed(f, m, u) ==
    /\ (u > 21 /\ u \notin 32768..32775) => (~f.ok /\ f.err = "InvalidOpCode")
    /\ u \in 32768..32775 => (~f.ok /\ f.err = "NonLiteralOpCode")
    /\ (u <= 21 /\ WellFormed(m, Operands(u))) =>
          (f.ok /\ f.op.id = u /\ f.m.pos = m.pos + 2 * (1 + Len(Operands(u))))

\* C29: fetch_op fails with InvalidOpCode for every opcode word that is
\* neither an id 0..21 nor a register reference, with NonLiteralOpCode for
\* the words 32768..32775, and for an id 0..21 with well-formed operands
\* succeeds having advanced IP by 1 + the number of operands.
C29_FetchOpErrors ==
    (state.tag = "Running" /\ dbg \in {"prompt", "c", "s"} /\ WordAt(state.m, 0) >= 0) =>
        FetchAsClaimed(FetchOp(state.m), state.m, WordAt(state.m, 0))

\* ---------------------------------------------------------- command errors

\* C30: an error raised by a debugger command, also one raised while
\* stepping in "s" or "c", is reported inline and the command loop goes
\* on with the debugger and its machine: no command's error ends debug().
C30_ErrorsReportedInline ==
    [][(dbg \in {"prompt", "c", "s"} /\ last'.err # None) => dbg' \in {"prompt", "c", "s"}]_vars

\* ----------------------------------------------------------- short programs

\* set r0 328; out r0; out 361; halt: characters whose codes pass a byte
OutWide == <<1, 32768, 328, 19, 32768, 19, 361, 0>>

\* push 7; pop r1; set r0 9; push r0; pop r2; pop r3
PushPop == <<2, 7, 3, 32769, 1, 32768, 9, 2, 32768, 3, 32770, 3, 32771>>

RunRoms == {Hello, OutWide, PushPop}

InitRun == InitWith(RunRoms, Ascii)

SpecRun == InitRun /\ [][NextArith]_vars

\* C31: running the Hello scenario from IP 0 gives the outcomes
\* Output('H'), Output('i'), Halted in that order; each out emits the low
\* byte of its resolved operand and leaves registers, memory and stack
\* unchanged.
C31_HelloOutputs ==
    /\ [][(SteppedRunning /\ OpAt(state.m, {19})) =>
             /\ last'.res = "Output"
             /\ last'.c = ValAt(state.m, 1) % 256
             /\ state'.tag = "Running"
             /\ state'.m = [state.m EXCEPT !.pos = state.m.pos + 4]]_vars
    /\ [][(rom = Hello /\ last'.op = "step" /\ last'.ran) =>
             \/ nsteps' = 1 /\ last'.res = "Output" /\ last'.c = 72
             \/ nsteps' = 2 /\ last'.res = "Output" /\ last'.c = 105
             \/ nsteps' = 3 /\ last'.res = "Halted" /\ state'.tag = "Halted"]_vars

\* C31's case: the Hello scenario halted after its two outputs.
C31_Witness ==
    /\ rom = Hello
    /\ state.tag = "Halted" /\ last.op = "step" /\ last.ran /\ last.res = "Halted"
    /\ nsteps = 3

\* C32: pop on an empty stack gives the EmptyStack error; pop on a
\* non-empty stack removes the top entry and writes it to the destination
\* register, so push v followed by pop r leaves r equal to the resolved v
\* and the stack as before the push.
C32_PushAndPop ==
    /\ [][(SteppedRunning /\ OpAt(state.m, {3})) =>
             IF state.m.stack = <<>>
             THEN last'.res = "Error" /\ last'.err = "EmptyStack"
             ELSE /\ last'.res = "Continue"
                  /\ state'.m = [state.m EXCEPT
                                    !.stack = Popped(state.m.stack),
                                    !.regs[DstAt(state.m)] = state.m.stack[Len(state.m.stack)],
                                    !.pos = state.m.pos + 4]]_vars
    /\ [][(SteppedRunning /\ OpAt(state.m, {2})) =>
             /\ last'.res = "Continue"
             /\ state'.m = [state.m EXCEPT
                               !.stack = Append(state.m.stack, ValAt(state.m, 1)),
                               !.pos = state.m.pos + 4]]_vars
    /\ [](rom = PushPop =>
             /\ nsteps = 2 => (state.m.regs[1] = 7 /\ state.m.stack = <<>>)
             /\ nsteps = 5 => (state.m.regs[2] = 9 /\ state.m.stack = <<>>))

\* C32's case: after two pushes, each followed by a pop, a third pop found
\* the stack empty.
C32_Witness ==
    /\ rom = PushPop
    /\ last.op = "step" /\ last.res = "Error" /\ last.err = "EmptyStack"
    /\ nsteps = 6
    /\ state.m.regs[1] = 7 /\ state.m.regs[2] = 9 /\ state.m.stack = <<>>

\* ------------------------------------------------- memory ranges ("x")

\* An Option<Addr>
Unspecified == [some |-> FALSE, a |-> 0]
Given(a) == [some |-> TRUE, a |-> a]

\* AddrRange::from_str: "a" is the range a..a; two given ends are put in
\* order; an end left out is unspecified.
AddrRangeFromStr(s, e) ==
    IF s.some /\ e.some /\ s.a > e.a THEN [s |-> e, e |-> s] ELSE [s |-> s, e |-> e]

\* AddrRange::start
RangeStart(r) == IF r.s.some THEN r.s.a ELSE 0

\* A variant of get_range whose unspecified end is always the last address
GetRangeToLastAddr(m, r) ==
    LET e == IF r.e.some THEN r.e.a ELSE MAX_ADDR
    IN  [ok |-> RangeStart(r) * 2 <= (e + 1) * 2 /\ (e + 1) * 2 <= m.veclen,
         lo |-> RangeStart(r) * 2, hi |-> (e + 1) * 2]

\* Memory::get_range: the bytes [lo, hi) of the vector; not ok is the
\* panic of the slice.
GetRange(m, r) ==
    LET e == IF r.e.some THEN r.e.a
             ELSE IF RangeStart(r) > m.wm THEN MAX_ADDR ELSE m.wm
    IN  [ok |-> RangeStart(r) * 2 <= (e + 1) * 2 /\ (e + 1) * 2 <= m.veclen,
         lo |-> RangeStart(r) * 2, hi |-> (e + 1) * 2]

\* Addresses typed as range ends
ExamineAddrs == {0, 11, 12, 13, 32767}
RangeEnds == {Unspecified} \cup {Given(a) : a \in ExamineAddrs}

\* The report of "x": the range asked for and the bytes shown
Examined(r, view) ==
    [op |-> "x", first |-> FALSE, ran |-> FALSE, res |-> None, err |-> None,
     c |-> 0, reg |-> 0, brk |-> None, bp |-> 0, berr |-> None,
     range |-> r, view |-> view]

\* "x addr" and "x addr..addr": Debugger::examine_mem
CmdExamine ==
    /\ dbg = "prompt"
    /\ \E s \in RangeEnds, e \in RangeEnds :
          /\ last' = Examined(AddrRangeFromStr(s, e),
                              GetRange(state.m, AddrRangeFromStr(s, e)))
          /\ dbg' = IF last'.view.ok THEN "prompt" ELSE "crashed"
    /\ UNCHANGED <<rom, keys, state, output, breakpoints, file, saved, nsteps>>

ExamineRoms == {Hello, WmemBoth, LastWord}

InitExamine == InitWith(ExamineRoms, Ascii)

NextExamine == NextArith \/ CmdExamine

SpecExamine == InitExamine /\ [][NextExamine]_vars

\* The watermark is the end of a range whose end is left out, for every
\* start address
C33_Original ==
    last.op = "x" =>
       /\ last.view.lo = RangeStart(last.range) * 2
       /\ last.view.hi =
             ((IF last.range.e.some THEN last.range.e.a ELSE state.m.wm) + 1) * 2

\* C33: get_range with an unspecified start begins at word 0; with an
\* unspecified end it stops at the watermark (inclusive) when the start is
\* not above the watermark, and at the last address 32767 when it is; the
\* slice covers bytes [start*2, (end+1)*2) and lies inside the vector.
C33_GetRange ==
    last.op = "x" =>
       /\ last.view.ok
       /\ last.view.lo = (IF last.range.s.some THEN last.range.s.a ELSE 0) * 2
       /\ last.view.hi =
             ((IF last.range.e.some THEN last.range.e.a
               ELSE IF last.view.lo > state.m.wm * 2 THEN 32767
               ELSE state.m.wm) + 1) * 2
       /\ last.view.lo < last.view.hi

\* C33's case: after wmem raised the watermark to 12, a range from 13
\* with no end was shown up to the end of memory.
C33_Witness ==
    /\ rom = WmemBoth /\ state.m.wm = 12
    /\ last.op = "x" /\ ~last.range.e.some
    /\ last.range.s.some /\ last.range.s.a = 13
    /\ last.view.ok /\ last.view.hi = 65536

\* C34: the watermark never decreases: it starts at the last word of the
\* ROM, a wmem raises it to the address written when that is higher, no
\* other step and no read changes it, and every memory word above it is 0.
C34_Watermark ==
    /\ [][state'.m.wm =
             IF SteppedRunning /\ OpAt(state.m, {16}) /\ last'.res = "Continue"
             THEN Max(state.m.wm, ValAt(state.m, 1))
             ELSE state.m.wm]_vars
    /\ [][state'.m.wm >= state.m.wm]_vars
    /\ [](nsteps = 0 => state.m.wm = Len(rom) - 1)
    /\ [](\A a \in DOMAIN state.m.mem : a <= state.m.wm)

\* C34's case: wmem 11 r1 raised the watermark from 9 to 11, wmem r1 32767
\* raised it to 12, and the words above 12 are 0.
C34_Witness ==
    /\ rom = WmemBoth
    /\ last.op = "step" /\ last.res = "Continue" /\ nsteps = 3
    /\ state.m.wm = 12
    /\ \A a \in DOMAIN state.m.mem : a <= 12

\* C34's other case: wmem below the watermark left it where it was.
C34_WitnessBelow ==
    /\ rom = MemAccess
    /\ last.op = "step" /\ last.res = "Continue" /\ nsteps = 5
    /\ state.m.wm = Len(MemAccess) - 1

\* C35: starting from a machine built from a ROM, after any sequence of
\* steps every register holds a value <= 32767 and every stack entry is
\* <= 32767.
C35_ValuesInRange ==
    /\ \A r \in DOMAIN state.m.regs : state.m.regs[r] <= MAX_ADDR
    /\ \A k \in DOMAIN state.m.stack : state.m.stack[k] <= MAX_ADDR

\* Executing op stores into register r: r is its destination register
StoresInto(op, r) == op.id \in RegWriters /\ op.args[1] = RegBase + r

\* C36: Write(Reg(r)) is triggered only by a next instruction whose
\* execution stores into register r.
C36_WriteRegOnlyByWriters ==
    NextPeeked(PeekInstr(state.m)) =>
        \A r \in 0..(NumRegs - 1) :
            TriggeredBy(Bp("Write", [mem |-> FALSE, v |-> r]), PeekInstr(state.m))
                => StoresInto(PeekInstr(state.m).op, r)

\* C37: Read(Reg(r)) is triggered by every next instruction that reads
\* register r to resolve an operand, the address operands of jmp, jt, jf,
\* call, rmem and wmem included.
C37_ReadRegByEveryReader ==
    NextPeeked(PeekInstr(state.m)) =>
        \A r \in 0..(NumRegs - 1) :
            ValueOperand(PeekInstr(state.m).op, r)
                => TriggeredBy(Bp("Read", [mem |-> FALSE, v |-> r]), PeekInstr(state.m))

\* ------------------------------------------- saving at a high watermark

SaveRoms == {Hello, WmemBoth, LastWord}

InitSave == InitWith(SaveRoms, Ascii)

SpecSave == InitSave /\ [][Next]_vars

\* C38: for every watermark from 0 to 32767, also after a wmem to address
\* 32767, save succeeds, the mem_bytes it writes is 2 * (watermark + 1), and
\* the file holds the header, an image of that many bytes, the registers,
\* stack_bytes and the stack.
C38_SaveAtEveryWatermark ==
    (last.op = "save" /\ saved[1].m.wm <= MAX_ADDR) =>
        /\ last.res = "ok"
        /\ \A u \in UsedBytes(saved[1].m) : u.ok /\ u.v = 2 * (saved[1].m.wm + 1)
        /\ file[1].len = 2 + 4 + 2 * (saved[1].m.wm + 1) + 2 * NumRegs + 2
                           + 2 * Len(saved[1].m.stack)

\* ------------------------------------------- loading a damaged save file

\* The save file of Hello's initial state: 34 bytes, mem_bytes = 10
GoodFile ==
    (CHOOSE r \in SaveVm([tag |-> "Running", reg |-> 0,
                          m |-> CHOOSE m \in MachineNew(Hello) : TRUE]) : r.ok).file

\* File f with byte o set to v
WithByte(f, o, v) == [f EXCEPT !.b = Put(f.b, o, v)]

\* Save files "l" can find: the good one; an unknown state tag; a stalled
\* register 8; mem_bytes odd, 0 and more than the file holds; a stack_bytes
\* more than the file holds; and files cut short
LoadFiles ==
    {GoodFile,
     WithByte(GoodFile, 0, 3),
     WithByte(WithByte(GoodFile, 0, 0), 1, 8),
     WithByte(GoodFile, 4, 9),
     WithByte(GoodFile, 4, 0),
     WithByte(GoodFile, 4, 100),
     WithByte(GoodFile, 27, 40)}
    \cup {Truncated(GoodFile, n) : n \in {0, 1, 2, 5, 10, 20}}

LoadRoms == {BreakSkip, CallRet}

InitLoad ==
    /\ rom \in LoadRoms
    /\ keys = Ascii
    /\ \E m \in MachineNew(rom) : state = [tag |-> "Running", reg |-> 0, m |-> m]
    /\ output = FALSE
    /\ breakpoints = <<>>
    /\ file \in {<<f>> : f \in LoadFiles}
    /\ saved = <<>>
    /\ dbg = "prompt"
    /\ last = Report("start", FALSE, NoStepResult, NoBreak)
    /\ nsteps = 0

NextLoad == NextDbg \/ CmdLoad

SpecLoad == InitLoad /\ [][NextLoad]_vars

\* C39: when load fails on a malformed or truncated save file, it reports
\* an error, the debugger is back at its prompt, and the execution state,
\* its machine and the breakpoint list are unchanged.
C39_FailedLoadKeepsState ==
    [][(last'.op = "load" /\ last'.res # "ok") =>
          /\ last'.res = "Error"
          /\ dbg' = "prompt"
          /\ state' = state
          /\ breakpoints' = breakpoints]_vars

====
